---- MODULE Spec2Model ----
(***************************************************************************)
(* Earth Tour server: job submission, request validation, background job   *)
(* execution and status queries (server/app), modelled as a state machine. *)
(*                                                                         *)
(* Python values: an Optional value is a set, {} for None and {v} for v.   *)
(* A dict is a function from its keys (strings) to their values; a key     *)
(* that was never assigned is not in the DOMAIN.                           *)
(***************************************************************************)
EXTENDS Integers, Sequences, FiniteSets, TLC

(* ---- bounds of the model ---- *)
MaxJobs == 2          \* accepted submissions (background tasks) per behaviour
MaxClock == 1         \* the wall clock, in seconds, runs from 0 to MaxClock
CacheCap == 2         \* capacity of the geocode cache where calls are observed
MaxWaypoints == 5     \* waypoints of an observed run of the Blender script
MaxFps == 3           \* frame rates 1..MaxFps, besides the server's 30
MaxDuration == 6      \* requested durations 1..MaxDuration seconds
MaxSteps == 3         \* steps of an observed call of great_circle_points
MaxComponent == 2     \* radial directions have components in -MaxComponent..MaxComponent

(* ---- program constants ---- *)
min_items == 2            \* models.py: AnimationRequest.locations min_items
lat_ge == -90
lat_le == 90
lon_ge == -180
lon_le == 180
geocode_max_retries == 3  \* geocoder.py: geocode(max_retries=3)
lru_maxsize == 1000       \* geocoder.py: @lru_cache(maxsize=1000)
base_duration == 5        \* renderer.py: 5 seconds for 2 locations
extra_duration == 3       \* renderer.py: +3 seconds per additional location
default_fps == 30         \* main.py: process_animation_request(fps=30)
camera_height_offset == 8 \* render_flight_simple.py: 0.8, in tenths

None == {}
Some(v) == {v}
TheValue(o) == CHOOSE v \in o : TRUE

\* id(request): the address of the request object. CPython may hand out the
\* address of an object that has been freed to a later object, and the request
\* of a finished handler is freed.
Addrs == {1, 2}

\* strftime('%Y%m%d%H%M%S'): one value per second of the clock.
JobIds == (0..MaxClock) \X Addrs

VARIABLES
    now,             \* wall clock, whole seconds
    animation_jobs,  \* main.py: animation_jobs, job id -> job dict
    tasks,           \* background tasks, one per accepted submission, in order
    geocode_cache,   \* lru_cache of GeocodingService.geocode, least recent first
    config_files,    \* config directory: path -> configuration written
    output_files,    \* output directory: path -> locations the video shows
    req,             \* body of the last POST /generate-animation
    resp,            \* response to it
    geo,             \* the last observed call of geocode and what it did
    plan,            \* the last observed run of the Blender script: its flight plan
    path,            \* the last observed call of great_circle_points
    basis,           \* the last observed orientation of the plane
    camera           \* the last observed up vector of the camera

vars == <<now, animation_jobs, tasks, geocode_cache, config_files, output_files,
          req, resp, geo, plan, path, basis, camera>>

(***************************************************************************)
(* Dicts                                                                   *)
(***************************************************************************)
EmptyDict == [k \in {} |-> {}]
SetKey(d, k, v) == [x \in (DOMAIN d) \cup {k} |-> IF x = k THEN v ELSE d[x]]
HasKey(d, k) == k \in DOMAIN d

(***************************************************************************)
(* models.py: request validation.                                          *)
(* A raw JSON location is [given, name, lat, lon]: given is the set of     *)
(* keys the object has; a key given with value None is JSON null.          *)
(* pydantic validates the fields in the order they are declared (name,     *)
(* lat, lon); a validator sees in `values` the fields validated before it, *)
(* is not called for a key the object does not have (the field then takes  *)
(* its default), and a field that failed is left out of `values`.          *)
(***************************************************************************)
\* TRUE when the validator raises ValueError.
validate_name_or_coordinates(v, values) ==
    v = None /\ (~HasKey(values, "lat") \/ values["lat"] = None)

validate_lat_lon_pair(v, values) ==
    v # None /\ ~HasKey(values, "lon")

lat_in_range(v) == v = None \/ (TheValue(v) >= lat_ge /\ TheValue(v) <= lat_le)
lon_in_range(v) == v = None \/ (TheValue(v) >= lon_ge /\ TheValue(v) <= lon_le)

\* One field of a model: st is [values, ok], the fields validated so far and
\* whether no error has been collected.
ValidateField(st, raw, f, raises) ==
    IF f \notin raw.given
    THEN [values |-> SetKey(st.values, f, None), ok |-> st.ok]
    ELSE IF raises
         THEN [values |-> st.values, ok |-> FALSE]
         ELSE [values |-> SetKey(st.values, f, raw[f]), ok |-> st.ok]

ValidateLocation(raw) ==
    LET s0 == [values |-> EmptyDict, ok |-> TRUE]
        s1 == ValidateField(s0, raw, "name",
                            validate_name_or_coordinates(raw.name, s0.values))
        s2 == ValidateField(s1, raw, "lat",
                            ~lat_in_range(raw.lat) \/ validate_lat_lon_pair(raw.lat, s1.values))
        s3 == ValidateField(s2, raw, "lon", ~lon_in_range(raw.lon))
    IN s3

\* The Location object of a raw location that validates.
Location(raw) ==
    LET v == ValidateLocation(raw).values
    IN [name |-> v["name"], lat |-> v["lat"], lon |-> v["lon"]]

\* AnimationRequest: every item is a Location, min_items, validate_locations.
AnimationRequestValid_NoMinItems(body) ==
    \A i \in 1..Len(body.locations) : ValidateLocation(body.locations[i]).ok

AnimationRequestValid(body) ==
    /\ \A i \in 1..Len(body.locations) : ValidateLocation(body.locations[i]).ok
    /\ Len(body.locations) >= min_items
    /\ ~(Len(body.locations) < 2)

AnimationRequest(body) ==
    [locations |-> [i \in 1..Len(body.locations) |-> Location(body.locations[i])],
     quality |-> body.quality,
     duration |-> body.duration]

(***************************************************************************)
(* geocoder.py: GeocodingService.geocode.                                  *)
(* outs is what the Nominatim collaborator does on the successive queries  *)
(* of one call: "found", "no_match", "timeout" (GeocoderTimedOut or        *)
(* GeocoderUnavailable) or "error" (any other exception).                  *)
(***************************************************************************)
Outcomes == {"found", "no_match", "timeout", "error"}

\* The runs of one call: some timeouts, then an answer, an empty answer or
\* an error; or max_retries timeouts.
Timeouts(k) == [j \in 1..k |-> "timeout"]
OutcomeSeqs ==
    { Append(Timeouts(k), out) :
        k \in 0..(geocode_max_retries - 1), out \in Outcomes \ {"timeout"} }
    \cup {Timeouts(geocode_max_retries)}

\* What Nominatim answers for a name it knows.
GeoCoord(name) == IF name = "London" THEN <<52, 0>> ELSE <<41, -74>>

\* Nominatim's data changes: "found_elsewhere" is a later, different answer.
GeoAnswer(name, out) == IF out = "found" THEN GeoCoord(name) ELSE <<42, -75>>

RECURSIVE Pow2(_)
Pow2(n) == IF n = 0 THEN 1 ELSE 2 * Pow2(n - 1)

RECURSIVE geocode_loop_OneMore(_, _, _, _, _)
geocode_loop_OneMore(location_name, max_retries, outs, retry_count, slept) ==
    IF ~(retry_count <= max_retries)
    THEN [result |-> None, queries |-> retry_count, slept |-> slept]
    ELSE LET out == outs[retry_count + 1]
         IN CASE out \in {"found", "found_elsewhere"} ->
                   [result |-> Some(GeoAnswer(location_name, out)),
                    queries |-> retry_count + 1, slept |-> slept]
              [] out = "no_match" ->
                   [result |-> None, queries |-> retry_count + 1, slept |-> slept]
              [] out = "timeout" ->
                   geocode_loop_OneMore(location_name, max_retries, outs, retry_count + 1,
                                        Append(slept, Pow2(retry_count + 1)))
              [] OTHER ->
                   [result |-> None, queries |-> retry_count + 1, slept |-> slept]

RECURSIVE geocode_loop_RetriesNoMatch(_, _, _, _, _)
geocode_loop_RetriesNoMatch(location_name, max_retries, outs, retry_count, slept) ==
    IF ~(retry_count < max_retries)
    THEN [result |-> None, queries |-> retry_count, slept |-> slept]
    ELSE LET out == outs[retry_count + 1]
         IN CASE out \in {"found", "found_elsewhere"} ->
                   [result |-> Some(GeoAnswer(location_name, out)),
                    queries |-> retry_count + 1, slept |-> slept]
              [] out \in {"timeout", "no_match"} ->
                   geocode_loop_RetriesNoMatch(location_name, max_retries, outs,
                                               retry_count + 1,
                                               Append(slept, Pow2(retry_count + 1)))
              [] OTHER ->
                   [result |-> None, queries |-> retry_count + 1, slept |-> slept]

\* The retry loop: [result, queries, slept].
RECURSIVE geocode_loop(_, _, _, _, _)
geocode_loop(location_name, max_retries, outs, retry_count, slept) ==
    IF ~(retry_count < max_retries)
    THEN [result |-> None, queries |-> retry_count, slept |-> slept]
    ELSE LET out == outs[retry_count + 1]
         IN CASE out \in {"found", "found_elsewhere"} ->
                   [result |-> Some(GeoAnswer(location_name, out)),
                    queries |-> retry_count + 1, slept |-> slept]
              [] out = "no_match" ->
                   [result |-> None, queries |-> retry_count + 1, slept |-> slept]
              [] out = "timeout" ->
                   geocode_loop(location_name, max_retries, outs, retry_count + 1,
                                Append(slept, Pow2(retry_count + 1)))
              [] OTHER ->
                   [result |-> None, queries |-> retry_count + 1, slept |-> slept]

geocode_body_NoEmptyCheck(location_name, max_retries, outs) ==
    geocode_loop(location_name, max_retries, outs, 0, <<>>)

geocode_body(location_name, max_retries, outs) ==
    IF location_name = ""
    THEN [result |-> None, queries |-> 0, slept |-> <<>>]
    ELSE geocode_loop(location_name, max_retries, outs, 0, <<>>)

\* functools.lru_cache: the cache is a sequence of [key, value], least
\* recently used first. The wrapped function runs outside any lock.
CacheIndex(cache, key) ==
    IF \E k \in 1..Len(cache) : cache[k].key = key
    THEN CHOOSE k \in 1..Len(cache) : cache[k].key = key
    ELSE 0

CacheWithout(cache, k) ==
    [j \in 1..(Len(cache) - 1) |-> IF j < k THEN cache[j] ELSE cache[j + 1]]

\* A hit moves the entry to the most recently used end.
CacheHit(cache, k) == Append(CacheWithout(cache, k), cache[k])

CacheStore_NoEviction(cache, key, value, maxsize) ==
    IF CacheIndex(cache, key) # 0 THEN cache
    ELSE Append(cache, [key |-> key, value |-> value])

\* After the call: a key another thread stored meanwhile is left alone; a full
\* cache drops its least recently used entry.
CacheStore(cache, key, value, maxsize) ==
    IF CacheIndex(cache, key) # 0 THEN cache
    ELSE IF Len(cache) >= maxsize
         THEN Append(Tail(cache), [key |-> key, value |-> value])
         ELSE Append(cache, [key |-> key, value |-> value])

lru_geocode_NoCache(cache, location_name, outs, maxsize) ==
    LET r == geocode_body(location_name, geocode_max_retries, outs)
    IN [result |-> r.result, queries |-> r.queries, slept |-> r.slept,
        hit |-> FALSE,
        cache |-> CacheStore(cache, location_name, r.result, maxsize)]

\* One call of the cached geocode: a hit returns the cached value without
\* running the function; a miss runs it and stores what it returned.
lru_geocode(cache, location_name, outs, maxsize) ==
    LET k == CacheIndex(cache, location_name)
    IN IF k # 0
       THEN [result |-> cache[k].value, queries |-> 0, slept |-> <<>>,
             hit |-> TRUE, cache |-> CacheHit(cache, k)]
       ELSE LET r == geocode_body(location_name, geocode_max_retries, outs)
            IN [result |-> r.result, queries |-> r.queries, slept |-> r.slept,
                hit |-> FALSE,
                cache |-> CacheStore(cache, location_name, r.result, maxsize)]

(***************************************************************************)
(* renderer.py: BlenderRenderer                                            *)
(***************************************************************************)
dynamic_duration_AlwaysComputed(duration, num_locations) ==
    base_duration + (num_locations - 2) * extra_duration

\* render_animation, lines 126-131
dynamic_duration(duration, num_locations) ==
    IF duration = None
    THEN base_duration + (num_locations - 2) * extra_duration
    ELSE TheValue(duration)

\* _prepare_config: the file name carries the time to the second
prepare_config_path(timestamp) == <<"earth_tour_config", timestamp>>

\* _generate_output_filename: the time to the second and the quality
generate_output_filename(timestamp, quality) == <<"earth_tour", timestamp, quality>>

render_result_NoExistsCheck(returncode, output_path, files) ==
    IF returncode = None THEN None
    ELSE IF TheValue(returncode) # 0 THEN None
    ELSE Some(output_path)

\* render_animation, lines 163-189: the value returned once Blender has
\* exited; a returncode of None stands for Popen having raised.
render_result(returncode, output_path, files) ==
    IF returncode = None THEN None
    ELSE IF TheValue(returncode) # 0 THEN None
    ELSE IF HasKey(files, output_path) THEN Some(output_path)
    ELSE None

(***************************************************************************)
(* blender_scripts/render_flight_simple.py, the script the renderer runs.  *)
(*                                                                         *)
(* A waypoint is <<lat, lon>> in whole degrees. A point of the unit sphere *)
(* is kept as the great circle it was computed on: the fraction num/den of *)
(* the way from one place to another. At fraction 0 the code computes      *)
(* sin(d)/sin(d) = 1 and sin(0)/sin(d) = 0, the place itself; likewise at  *)
(* fraction 1.                                                             *)
(***************************************************************************)
\* The unit vector of a place: at a pole the longitude does not matter, and
\* longitudes -180 and 180 are one meridian.
UnitVector(p) ==
    IF p[1] \in {lat_le, lat_ge} THEN <<p[1], 0>>
    ELSE IF p[2] = lon_ge THEN <<p[1], lon_le>>
    ELSE p

At(p) == [from |-> UnitVector(p), to |-> UnitVector(p), num |-> 0, den |-> 1]

\* line 222: both differences below 1e-10 radians
nearly_identical(start, end) == start = end

\* line 250: the angular distance d_sigma is below 1e-10
zero_angle(start, end) == UnitVector(start) = UnitVector(end)

\* lines 249-271: the sample at t = i / steps
great_circle_sample(start, end, i, steps) ==
    IF zero_angle(start, end) THEN At(start)
    ELSE IF i = 0 THEN At(start)
    ELSE IF i = steps THEN At(end)
    ELSE [from |-> UnitVector(start), to |-> UnitVector(end), num |-> i, den |-> steps]

great_circle_points_OpenEnd(start, end, steps) ==
    IF nearly_identical(start, end)
    THEN [raised |-> FALSE, points |-> [i \in 1..steps |-> At(start)]]
    ELSE IF steps = 0
    THEN [raised |-> TRUE, points |-> <<>>]
    ELSE [raised |-> FALSE,
          points |-> [i \in 1..steps |-> great_circle_sample(start, end, i - 1, steps)]]

great_circle_points_NoSamePointCase(start, end, steps) ==
    IF steps = 0
    THEN [raised |-> TRUE, points |-> <<>>]
    ELSE [raised |-> FALSE,
          points |-> [i \in 1..(steps + 1) |-> great_circle_sample(start, end, i - 1, steps)]]

\* lines 209-273. t = i / steps raises ZeroDivisionError when steps is 0:
\* raised tells so, and then nothing is returned.
great_circle_points(start, end, steps) ==
    IF nearly_identical(start, end)
    THEN [raised |-> FALSE, points |-> [i \in 1..(steps + 1) |-> At(start)]]
    ELSE IF steps = 0
    THEN [raised |-> TRUE, points |-> <<>>]
    ELSE [raised |-> FALSE,
          points |-> [i \in 1..(steps + 1) |-> great_circle_sample(start, end, i - 1, steps)]]

\* line 63
total_frames(fps, duration) == fps * duration

frames_per_segment_NoFloor(frames, total_segments) ==
    IF total_segments > 0 THEN frames \div total_segments ELSE frames

\* lines 286-288
frames_per_segment(frames, total_segments) ==
    LET q == IF total_segments > 0 THEN frames \div total_segments ELSE frames
    IN IF q = 0 /\ total_segments > 0 THEN 1 ELSE q

\* line 332
num_gcp_steps(fps_segment) ==
    LET s == IF fps_segment > 0 THEN fps_segment - 1 ELSE 0
    IN IF s > 0 THEN s ELSE 0

\* line 333: the path of segment i (from 0)
segment_path(waypoints, i, fps_segment) ==
    great_circle_points(waypoints[i + 1], waypoints[i + 2], num_gcp_steps(fps_segment))

\* lines 327-347: the location keyframes <<frame, segment, sample>> the loop
\* inserts, up to the first segment whose path raises; the exception ends
\* the script (lines 541-544).
position_keyframes(waypoints, frames, fps_segment) ==
    LET total_segments == Len(waypoints) - 1
        raising == { i \in 0..(total_segments - 1) :
                        segment_path(waypoints, i, fps_segment).raised }
        reached == { i \in 0..(total_segments - 1) : \A r \in raising : i < r }
        inserted(i) ==
            { <<i * fps_segment + j + 1, i, j>> :
                j \in 0..(Len(segment_path(waypoints, i, fps_segment).points) - 1) }
    IN [raised |-> raising # {},
        keys |-> { k \in UNION { inserted(i) : i \in reached } : ~(k[1] > frames) }]

\* lines 369 and 435: of the samples keyed, those that have a next sample
\* in their segment get a rotation_euler keyframe; samples[i] is
\* len(path_points) of segment i - 1.
rotation_keyframes(keys, samples) ==
    { k \in keys : k[3] < samples[k[2] + 1] - 1 }

\* plane.matrix_world.translation after frame_set(frame): the sample keyed
\* on the frame, or on the last keyed frame before it; paths[i] is
\* path_points of segment i - 1.
plane_location(keys, paths, frame) ==
    LET keyed == { k[1] : k \in keys }
        last == CHOOSE g \in keyed :
                    g <= frame /\ \A h \in (g + 1)..frame : h \notin keyed
        at == CHOOSE k \in keys :
                  k[1] = last /\ \A q \in keys : q[1] = last => q[2] <= k[2]
    IN paths[at[2] + 1][at[3] + 1]

\* line 482: range(1, frames + 1)
camera_frames(frames) == 1..frames

\* lines 482-534: the keyframes <<frame, data_path>> of the camera and its
\* location on each frame: the plane's position and, added to it, the offset
\* along the direction of that position from the centre of the Earth.
camera_keyframes(frames) ==
    camera_frames(frames) \X {"location", "rotation_euler"}

camera_location(plane_pos_eval) ==
    [body |-> plane_pos_eval, along |-> plane_pos_eval,
     offset |-> camera_height_offset]

\* models.py 6-10
VideoQuality == {"720p", "1080p", "1440p", "4K"}

\* str.lower() on the quality values
lower(quality) == IF quality = "4K" THEN "4k" ELSE quality

\* lines 53-58: the table, and the default of .get
resolution(quality) ==
    LET key == lower(quality)
    IN CASE key = "480p" -> <<480, 854>>
         [] key = "720p" -> <<720, 1280>>
         [] key = "1080p" -> <<1080, 1920>>
         [] key = "4k" -> <<2160, 3840>>
         [] OTHER -> <<720, 1280>>

\* lines 439-475: the hide_render keyframes of label i, <<frame, hidden>> in
\* the order they are inserted.
label_keyframes(i, total_segments, frames, fps_segment) ==
    LET base_appear_frame == i * fps_segment + 1
        disappear_frame == (i + 1) * fps_segment
    IN (IF base_appear_frame > 1 THEN << <<base_appear_frame - 1, TRUE>> >> ELSE <<>>)
       \o << <<base_appear_frame, FALSE>> >>
       \o (IF i < total_segments /\ disappear_frame < frames
           THEN << <<disappear_frame + 1, TRUE>> >>
           ELSE << <<frames, FALSE>> >>)

SetMax(S) == CHOOSE x \in S : \A y \in S : y <= x
SetMin(S) == CHOOSE x \in S : \A y \in S : x <= y

\* keyframe_insert on a frame that has a keyframe replaces it.
keyframe_value(inserts, frame) ==
    inserts[SetMax({ k \in 1..Len(inserts) : inserts[k][1] = frame })][2]

\* The animated hide_render at a frame: the value of the last keyframe at
\* or before it, and before the first keyframe the value of the first
\* (Blender's F-curves extrapolate constantly).
hide_render(inserts, frame) ==
    LET keyed == { inserts[k][1] : k \in 1..Len(inserts) }
        before == { f \in keyed : f <= frame }
    IN IF before # {} THEN keyframe_value(inserts, SetMax(before))
       ELSE keyframe_value(inserts, SetMin(keyed))

\* mathutils.Vector, exactly: the pair <<v, d>> is the vector v / sqrt(d),
\* v a triple of integers and d a positive integer. A unit vector has
\* v . v = d.
RECURSIVE Gcd(_, _)
Gcd(a, b) == IF b = 0 THEN a ELSE Gcd(b, a % b)

Abs(n) == IF n < 0 THEN -n ELSE n
Dot3(a, b) == a[1] * b[1] + a[2] * b[2] + a[3] * b[3]
Cross3(a, b) ==
    <<a[2] * b[3] - a[3] * b[2], a[3] * b[1] - a[1] * b[3], a[1] * b[2] - a[2] * b[1]>>

ZeroVector == << <<0, 0, 0>>, 1 >>
AxisX == << <<1, 0, 0>>, 1 >>
AxisY == << <<0, 1, 0>>, 1 >>
AxisZ == << <<0, 0, 1>>, 1 >>

\* Vector.normalized(); the zero vector stays the zero vector.
Normalized(a) ==
    LET v == a[1]
        g == Gcd(Gcd(Abs(v[1]), Abs(v[2])), Abs(v[3]))
        w == <<v[1] \div g, v[2] \div g, v[3] \div g>>
    IN IF v = <<0, 0, 0>> THEN ZeroVector ELSE <<w, Dot3(w, w)>>

Cross(a, b) ==
    IF Cross3(a[1], b[1]) = <<0, 0, 0>> THEN ZeroVector
    ELSE <<Cross3(a[1], b[1]), a[2] * b[2]>>

Neg(a) == << <<-a[1][1], -a[1][2], -a[1][3]>>, a[2] >>

\* the difference of two vectors of one denominator
Sub(a, b) ==
    IF a[1] = b[1] THEN ZeroVector
    ELSE << <<a[1][1] - b[1][1], a[1][2] - b[1][2], a[1][3] - b[1][3]>>, a[2] >>

\* a.length < 0.0001, a.length > 0.0001
\* (v . v) / d against 1e-8, without leaving the integers
LengthBelow(a) == Dot3(a[1], a[1]) <= (a[2] - 1) \div 100000000
LengthAbove(a) == Dot3(a[1], a[1]) > a[2] \div 100000000

\* abs(a.dot(b)) > 0.999, a.dot(b) < 0
\* (a . b)^2 > 0.998001 (a . a)(b . b), i.e. 1e6 * (D - dot^2) < 1999 * D
NearParallel(a, b) ==
    LET D == a[2] * b[2]
        dot == Dot3(a[1], b[1])
    IN D - dot * dot <= (1999 * D - 1) \div 1000000
DotNegative(a, b) == Dot3(a[1], b[1]) < 0

\* abs(a.z) < 0.9, abs(a.x) > 0.9
ZBelow(a) == a[1][3] * a[1][3] * 100 < 81 * a[2]
XAbove(a) == a[1][1] * a[1][1] * 100 > 81 * a[2]

\* lines 409-414 and 423
fallback_right(final_up) ==
    LET r == IF ZBelow(final_up) THEN Normalized(Cross(final_up, AxisZ))
             ELSE Normalized(Cross(final_up, AxisY))
    IN IF LengthBelow(r) THEN (IF XAbove(final_up) THEN AxisX ELSE AxisY) ELSE r

orientation_Unnormalized(current_vec_point, next_vec_point, props) ==
    LET direction == Normalized(Sub(next_vec_point, current_vec_point))
        up == Neg(Normalized(current_vec_point))
        right == Cross(direction, up)
    IN [right |-> right, forward |-> direction, up |-> Cross(right, direction),
        zero_step |-> ~LengthAbove(Sub(next_vec_point, current_vec_point)),
        parallel |-> NearParallel(direction, up),
        props |-> props]

\* lines 369-432: the basis of the plane at a sample, from the sample, the
\* next one and the custom properties kept on the plane object.
orientation(current_vec_point, next_vec_point, props) ==
    LET step == Sub(next_vec_point, current_vec_point)
        zero_step == ~LengthAbove(step)
        direction1 == IF ~zero_step THEN Normalized(step)
                      ELSE IF props.previous_direction # None
                      THEN TheValue(props.previous_direction)
                      ELSE AxisX
        up_vector_obj == Neg(Normalized(current_vec_point))
        parallel == NearParallel(direction1, up_vector_obj)
        temp_ref == IF ZBelow(up_vector_obj) THEN AxisZ ELSE AxisY
        right0 == IF props.previous_right_vector # None
                  THEN TheValue(props.previous_right_vector)
                  ELSE Normalized(Cross(up_vector_obj, temp_ref))
        forward0 == Normalized(Cross(up_vector_obj, right0))
        forward_vector == IF DotNegative(direction1, forward0) THEN Neg(forward0) ELSE forward0
        direction == IF parallel THEN forward_vector ELSE direction1
        right_vector == Normalized(Cross(up_vector_obj, direction))
        true_forward == Normalized(Cross(right_vector, up_vector_obj))
        right1 == Cross(up_vector_obj, true_forward)
        final_right == IF LengthBelow(right1) THEN fallback_right(up_vector_obj) ELSE right1
        final_forward == Normalized(Cross(final_right, up_vector_obj))
        right2 == Normalized(Cross(up_vector_obj, direction))
        right3 == IF LengthBelow(right2)
                  THEN (IF XAbove(up_vector_obj) THEN AxisX ELSE AxisY) ELSE right2
        after == [previous_direction |-> Some(direction1),
                  previous_right_vector |-> Some(right_vector)]
    IN IF LengthBelow(final_forward)
       THEN [right |-> right3, forward |-> direction,
             up |-> Normalized(Cross(direction, right3)),
             zero_step |-> zero_step, parallel |-> parallel, props |-> after]
       ELSE [right |-> final_right, forward |-> final_forward, up |-> up_vector_obj,
             zero_step |-> zero_step, parallel |-> parallel, props |-> after]

\* lines 494, 496, 498: axis - axis.dot(d) * d for a unit vector d, and
\* whether its length is below 0.001. Only the direction of the projection
\* is kept, since normalized() is all that is done with it; its squared
\* length is 1 - axis.dot(d)^2, compared with 1e-6 within the integers.
projection(axis, d) ==
    LET a == Dot3(axis[1], d[1])
        D == d[2]
    IN [vector |-> Normalized(<< <<D * axis[1][1] - a * d[1][1],
                                   D * axis[1][2] - a * d[1][2],
                                   D * axis[1][3] - a * d[1][3]>>, 1 >>),
        short |-> D - a * a <= (D - 1) \div 1000000]

\* direction_from_earth_center.z < 0.9
ZBelowSigned(d) == d[1][3] < 0 \/ d[1][3] * d[1][3] * 100 < 81 * d[2]

camera_up_NoFallback(d) ==
    LET north == projection(AxisY, d)
    IN [chosen |-> "Y",
        up |-> IF north.vector = ZeroVector THEN AxisY ELSE north.vector]

\* lines 493-504: the up reference of the camera for the radial direction
\* d of the plane, and the axis it was taken from.
camera_up(d) ==
    LET north == projection(AxisY, d)
        east == projection(AxisX, d)
        pole == projection(AxisZ, d)
        second == IF east.short THEN [chosen |-> "Z", p |-> pole]
                  ELSE [chosen |-> "X", p |-> east]
        third == IF second.p.short
                 THEN [chosen |-> "last",
                       p |-> [vector |-> IF ZBelowSigned(d) THEN AxisY ELSE AxisX,
                              short |-> FALSE]]
                 ELSE second
        projected_north == IF north.short THEN third ELSE [chosen |-> "Y", p |-> north]
        cam_up_vector == projected_north.p.vector
    IN [chosen |-> projected_north.chosen,
        up |-> IF cam_up_vector = ZeroVector THEN AxisY ELSE cam_up_vector]

\* render_flight.py, lines 285-317: frames_per_segment is frames // total_segments,
\* each segment's path has that number of steps (t = i / steps raises
\* ZeroDivisionError when it is 0, on either branch of great_circle_points),
\* every sample gets a location keyframe and every sample but the last of
\* its segment a rotation keyframe.
render_flight(config) ==
    LET frames == config.fps * config.duration
        total_segments == Len(config.locations) - 1
        fps_segment == frames \div total_segments
        raised == fps_segment = 0
        keys == IF raised THEN {}
                ELSE { <<i * fps_segment + j + 1, i, j>> :
                          i \in 0..(total_segments - 1), j \in 0..fps_segment }
    IN [frames |-> frames,
        frames_per_segment |-> fps_segment,
        raised |-> raised,
        position_keys |-> keys,
        rotation_keys |-> { k \in keys : k[3] < (fps_segment + 1) - 1 }]

\* The script on a configuration file: what it computes and keyframes.
render_flight_simple(config) ==
    LET waypoints == config.locations
        frames == total_frames(config.fps, config.duration)
        total_segments == Len(waypoints) - 1
        fps_segment == frames_per_segment(frames, total_segments)
        positions == position_keyframes(waypoints, frames, fps_segment)
        paths == [i \in 1..total_segments |->
                     segment_path(waypoints, i - 1, fps_segment).points]
        samples == [i \in 1..total_segments |-> Len(paths[i])]
    IN [frames |-> frames,
        total_segments |-> total_segments,
        frames_per_segment |-> fps_segment,
        raised |-> positions.raised,
        samples |-> samples,
        resolution |-> resolution(config.quality),
        position_keys |-> positions.keys,
        rotation_keys |-> rotation_keyframes(positions.keys, samples),
        camera_keys |-> IF positions.raised THEN {} ELSE camera_keyframes(frames),
        camera |-> IF positions.raised THEN <<>>
                   ELSE [f \in camera_frames(frames) |->
                            camera_location(plane_location(positions.keys, paths, f))],
        labels |-> IF positions.raised THEN <<>>
                   ELSE [l \in 1..Len(waypoints) |->
                            label_keyframes(l - 1, total_segments, frames, fps_segment)]]

(***************************************************************************)
(* main.py                                                                 *)
(***************************************************************************)
\* The JSON locations a client sends.
RawLocation(given, name, lat, lon) ==
    [given |-> given, name |-> name, lat |-> lat, lon |-> lon]
ByName(n) == RawLocation({"name"}, Some(n), None, None)
ByCoordinates(la, lo) == RawLocation({"lat", "lon"}, None, Some(la), Some(lo))
NoFields == RawLocation({}, None, None, None)

Body(locations) == [locations |-> locations, quality |-> "1080p", duration |-> None]

Init ==
    /\ now = 0
    /\ animation_jobs = EmptyDict
    /\ tasks = <<>>
    /\ geocode_cache = <<>>
    /\ config_files = EmptyDict
    /\ output_files = EmptyDict
    /\ req = None
    /\ resp = None
    /\ geo = None
    /\ plan = None
    /\ path = None
    /\ basis = None
    /\ camera = None

\* The clock advances.
Tick ==
    /\ now < MaxClock
    /\ now' = now + 1
    /\ UNCHANGED <<animation_jobs, tasks, geocode_cache, config_files, output_files, req, resp, geo, plan, path, basis, camera>>

\* The local variables of one run of process_animation_request.
NewTask(request_id, request) ==
    [request_id |-> request_id,
     locations |-> request.locations,
     quality |-> request.quality,
     fps |-> default_fps,
     duration |-> request.duration,
     pc |-> "L70",
     i |-> 1,
     processed_locations |-> <<>>,
     error_msg |-> None,
     start_time |-> None,
     config_path |-> None,
     output_path |-> None,
     returncode |-> None,
     output_exists |-> None,
     video_path |-> None,
     render_time |-> None]

\* main.py 152-160: the dict a submission stores.
NewJob(request_id, request, created) ==
    SetKey(SetKey(SetKey(SetKey(EmptyDict,
        "id", request_id),
        "status", "queued"),
        "created", created),
        "request", [locations |-> request.locations, quality |-> request.quality])

\* POST /generate-animation with body `body`, the request object at `addr`:
\* the response, the registry afterwards and the background tasks added.
\* FastAPI answers 422 itself when the body does not validate; an exception
\* inside the handler's try, the HTTPException(400) included, leaves as 500.
generate_animation(body, addr) ==
    IF ~AnimationRequestValid(body)
    THEN [response |-> [code |-> 422], jobs |-> animation_jobs, added |-> <<>>]
    ELSE LET request == AnimationRequest(body)
             request_id == <<now, addr>>
         IN IF Len(request.locations) < 2
            THEN [response |-> [code |-> 500], jobs |-> animation_jobs, added |-> <<>>]
            ELSE [response |-> [code |-> 200, job_id |-> request_id, status |-> "queued"],
                  jobs |-> SetKey(animation_jobs, request_id,
                                  NewJob(request_id, request, now)),
                  added |-> <<NewTask(request_id, request)>>]

\* The request bodies of the submissions whose jobs the model runs.
Requests ==
    { Body(<<ByName("New York")>>),
      Body(<<ByName("London"), ByName("New York")>>),
      Body(<<ByName("New York"), NoFields>>),
      Body(<<ByCoordinates(41, -74), ByCoordinates(52, 0)>>) }

\* A submission.
Submit ==
    /\ Len(tasks) < MaxJobs
    /\ \E body \in Requests, addr \in Addrs :
          LET r == generate_animation(body, addr)
          IN /\ animation_jobs' = r.jobs
             /\ tasks' = tasks \o r.added
    /\ UNCHANGED <<now, geocode_cache, config_files, output_files, req, resp, geo, plan, path, basis, camera>>

\* Every shape of a JSON location: each key absent, null or given, with
\* values in and out of range.
FieldShapes(f, vals) ==
    {[given |-> {}, value |-> None]} \cup {[given |-> {f}, value |-> v] : v \in vals}

AllRawLocations ==
    { RawLocation(n.given \cup la.given \cup lo.given, n.value, la.value, lo.value) :
        n \in FieldShapes("name", {None, Some(""), Some("New York")}),
        la \in FieldShapes("lat", {None, Some(41), Some(95)}),
        lo \in FieldShapes("lon", {None, Some(-74), Some(200)}) }

\* The bodies with up to min_items locations of every shape.
AllRequests ==
    { Body(locations) :
        locations \in UNION { [1..n -> AllRawLocations] : n \in 0..min_items } }

\* A submission whose body and response are recorded.
SubmitObserved ==
    /\ Len(tasks) < MaxJobs
    /\ req = None
    /\ \E body \in AllRequests, addr \in Addrs :
          LET r == generate_animation(body, addr)
          IN /\ animation_jobs' = r.jobs
             /\ tasks' = tasks \o r.added
             /\ req' = Some(body)
             /\ resp' = Some(r.response)
    /\ UNCHANGED <<now, geocode_cache, config_files, output_files, geo, plan, path, basis, camera>>

get_job_status_NoDefault(job_id) ==
    IF ~HasKey(animation_jobs, job_id)
    THEN [code |-> 404, detail |-> "Job not found"]
    ELSE LET job_info == animation_jobs[job_id]
         IN IF job_info["status"] = "completed"
            THEN IF HasKey(job_info, "video_path") /\ HasKey(job_info, "duration")
                 THEN [code |-> 200, job_id |-> job_id, status |-> "completed",
                       video_path |-> job_info["video_path"],
                       duration |-> job_info["duration"]]
                 ELSE [code |-> 500, detail |-> "KeyError"]
            ELSE IF job_info["status"] = "failed"
            THEN IF HasKey(job_info, "error")
                 THEN [code |-> 200, job_id |-> job_id, status |-> "failed",
                       error |-> job_info["error"]]
                 ELSE [code |-> 500, detail |-> "KeyError"]
            ELSE [code |-> 200, job_id |-> job_id, status |-> job_info["status"]]

\* GET /job/{job_id}: the response. A completed job whose video_path or
\* duration key is not set yet raises KeyError, which leaves as a 500.
get_job_status(job_id) ==
    IF ~HasKey(animation_jobs, job_id)
    THEN [code |-> 404, detail |-> "Job not found"]
    ELSE LET job_info == animation_jobs[job_id]
         IN IF job_info["status"] = "completed"
            THEN IF HasKey(job_info, "video_path") /\ HasKey(job_info, "duration")
                 THEN [code |-> 200, job_id |-> job_id, status |-> "completed",
                       video_path |-> job_info["video_path"],
                       duration |-> job_info["duration"]]
                 ELSE [code |-> 500, detail |-> "KeyError"]
            ELSE IF job_info["status"] = "failed"
            THEN [code |-> 200, job_id |-> job_id, status |-> "failed",
                  error |-> IF HasKey(job_info, "error") THEN job_info["error"]
                            ELSE "Unknown error"]
            ELSE [code |-> 200, job_id |-> job_id, status |-> job_info["status"]]

\* A status query reads the registry and changes nothing.
GetStatus ==
    /\ \E job_id \in JobIds : get_job_status(job_id).code \in {200, 404, 500}
    /\ UNCHANGED vars

(***************************************************************************)
(* process_animation_request, one action per statement that reads or       *)
(* writes shared state. The function runs in a worker thread, so its steps *)
(* interleave with the handlers and with the other background tasks.       *)
(***************************************************************************)
SetJob(request_id, key, value) ==
    animation_jobs' = [animation_jobs EXCEPT ![request_id] = SetKey(@, key, value)]

SetTask(t, rec) == tasks' = [tasks EXCEPT ![t] = rec]

AtPc(t, pc) == t \in 1..Len(tasks) /\ tasks[t].pc = pc

\* line 70
SetProcessing(t) ==
    /\ AtPc(t, "L70")
    /\ SetJob(tasks[t].request_id, "status", "processing")
    /\ SetTask(t, [tasks[t] EXCEPT !.pc = "L76"])
    /\ UNCHANGED <<now, geocode_cache, config_files, output_files, req, resp, geo, plan, path, basis, camera>>

AfterLocation_RendersEarly(task, coords) ==
    [task EXCEPT !.processed_locations = Append(@, coords),
                 !.i = @ + 1,
                 !.pc = "L99"]

\* After location i: the next iteration, or the render when the list is done.
AfterLocation(task, coords) ==
    [task EXCEPT !.processed_locations = Append(@, coords),
                 !.i = @ + 1,
                 !.pc = IF task.i = Len(task.locations) THEN "L99" ELSE "L76"]

AfterGeocode_NoFailure(task, coords) ==
    IF coords # None
    THEN AfterLocation(task, TheValue(coords))
    ELSE [task EXCEPT !.pc = "done"]

AfterGeocode_SkipsUnresolved(task, coords) ==
    IF coords # None
    THEN AfterLocation(task, TheValue(coords))
    ELSE [task EXCEPT !.i = @ + 1,
                      !.pc = IF task.i = Len(task.locations) THEN "L99" ELSE "L76"]

\* lines 83-90: what the loop does with the value geocode returned.
AfterGeocode(task, coords) ==
    IF coords # None
    THEN AfterLocation(task, TheValue(coords))
    ELSE [task EXCEPT !.error_msg =
              Some(<<"Failed to geocode location: ", TheValue(task.locations[task.i].name)>>),
                      !.pc = "L88"]

\* lines 76-96: one iteration of the loop, up to the call of geocode. A cache
\* hit returns at once; a miss runs the geocoder (GeocodeReturn).
LoopStep(t) ==
    /\ AtPc(t, "L76")
    /\ LET task == tasks[t]
           location == task.locations[task.i]
           k == CacheIndex(geocode_cache, TheValue(location.name))
       IN IF location.lat # None /\ location.lon # None
          THEN /\ SetTask(t, AfterLocation(task, <<TheValue(location.lat), TheValue(location.lon)>>))
               /\ UNCHANGED geocode_cache
          ELSE IF location.name # None /\ location.name # Some("")
          THEN IF k # 0
               THEN /\ SetTask(t, AfterGeocode(task, geocode_cache[k].value))
                    /\ geocode_cache' = CacheHit(geocode_cache, k)
               ELSE /\ SetTask(t, [task EXCEPT !.pc = "L82"])
                    /\ UNCHANGED geocode_cache
          ELSE /\ SetTask(t, [task EXCEPT
                       !.error_msg = Some(<<"Location missing both name and coordinates">>),
                       !.pc = "L94"])
               /\ UNCHANGED geocode_cache
    /\ UNCHANGED <<now, animation_jobs, config_files, output_files, req, resp, geo, plan, path, basis, camera>>

\* line 82, cache miss: geocode runs, its result is cached and returned.
GeocodeReturn(t) ==
    /\ AtPc(t, "L82")
    /\ \E outs \in OutcomeSeqs :
          LET task == tasks[t]
              name == TheValue(task.locations[task.i].name)
              r == geocode_body(name, geocode_max_retries, outs)
          IN /\ geocode_cache' = CacheStore(geocode_cache, name, r.result, lru_maxsize)
             /\ SetTask(t, AfterGeocode(task, r.result))
    /\ UNCHANGED <<now, animation_jobs, config_files, output_files, req, resp, geo, plan, path, basis, camera>>

\* lines 88, 94, 122, 128: status = "failed"
SetFailed(t) ==
    /\ \E pc \in {"L88", "L94", "L122", "L128"} : AtPc(t, pc)
    /\ SetJob(tasks[t].request_id, "status", "failed")
    /\ SetTask(t, [tasks[t] EXCEPT !.pc = "set_error"])
    /\ UNCHANGED <<now, geocode_cache, config_files, output_files, req, resp, geo, plan, path, basis, camera>>

\* lines 89, 95, 123, 129: error = error_msg, and the function returns
SetError(t) ==
    /\ AtPc(t, "set_error")
    /\ SetJob(tasks[t].request_id, "error", TheValue(tasks[t].error_msg))
    /\ SetTask(t, [tasks[t] EXCEPT !.pc = "done"])
    /\ UNCHANGED <<now, geocode_cache, config_files, output_files, req, resp, geo, plan, path, basis, camera>>

\* lines 99-100 and render_animation 122-138: the clock is read, the
\* configuration is written and the output path is chosen.
RenderPrepare(t) ==
    /\ AtPc(t, "L99")
    /\ LET task == tasks[t]
           locations == task.processed_locations
       IN IF Len(locations) < 2
          THEN /\ SetTask(t, [task EXCEPT !.start_time = Some(now),
                                          !.render_time = Some(0),
                                          !.error_msg = Some(<<"Failed to render animation">>),
                                          !.pc = "L122"])
               /\ UNCHANGED config_files
          ELSE LET duration == dynamic_duration(task.duration, Len(locations))
                   config_data == [locations |-> locations, quality |-> task.quality,
                                   fps |-> task.fps, duration |-> duration]
               IN /\ config_files' = SetKey(config_files, prepare_config_path(now), config_data)
                  /\ SetTask(t, [task EXCEPT
                          !.start_time = Some(now),
                          !.config_path = Some(prepare_config_path(now)),
                          !.output_path = Some(generate_output_filename(now, task.quality)),
                          !.pc = "L153"])
    /\ UNCHANGED <<now, animation_jobs, geocode_cache, output_files, req, resp, geo, plan, path, basis, camera>>

\* renderer.py 153-189 and main.py 106-108: Blender runs on the configuration
\* file and exits; returncode None stands for Popen raising. wrote tells
\* whether Blender wrote the video of the configuration it read.
RenderRun(t) ==
    /\ AtPc(t, "L153")
    /\ \E returncode \in {None, Some(0), Some(1)}, wrote \in BOOLEAN :
          LET task == tasks[t]
              output_path == TheValue(task.output_path)
              config == config_files[TheValue(task.config_path)]
              files == IF wrote /\ returncode # None
                       THEN SetKey(output_files, output_path, config.locations)
                       ELSE output_files
              video_path == render_result(returncode, output_path, files)
          IN /\ (returncode = None => ~wrote)
             /\ output_files' = files
             /\ SetTask(t, [task EXCEPT
                     !.returncode = returncode,
                     !.output_exists = IF returncode = Some(0)
                                       THEN Some(HasKey(files, output_path)) ELSE None,
                     !.video_path = video_path,
                     !.render_time = Some(now - TheValue(task.start_time)),
                     !.error_msg = IF video_path = None
                                   THEN Some(<<"Failed to render animation">>) ELSE None,
                     !.pc = IF video_path = None THEN "L122" ELSE "L114"])
    /\ UNCHANGED <<now, animation_jobs, geocode_cache, config_files, req, resp, geo, plan, path, basis, camera>>

\* line 114
SetCompleted(t) ==
    /\ AtPc(t, "L114")
    /\ SetJob(tasks[t].request_id, "status", "completed")
    /\ SetTask(t, [tasks[t] EXCEPT !.pc = "L115"])
    /\ UNCHANGED <<now, geocode_cache, config_files, output_files, req, resp, geo, plan, path, basis, camera>>

\* line 115
SetVideoPath(t) ==
    /\ AtPc(t, "L115")
    /\ SetJob(tasks[t].request_id, "video_path", <<"/videos/", TheValue(tasks[t].video_path)>>)
    /\ SetTask(t, [tasks[t] EXCEPT !.pc = "L116"])
    /\ UNCHANGED <<now, geocode_cache, config_files, output_files, req, resp, geo, plan, path, basis, camera>>

\* line 116, and the function returns
SetDuration(t) ==
    /\ AtPc(t, "L116")
    /\ SetJob(tasks[t].request_id, "duration", TheValue(tasks[t].render_time))
    /\ SetTask(t, [tasks[t] EXCEPT !.pc = "done"])
    /\ UNCHANGED <<now, geocode_cache, config_files, output_files, req, resp, geo, plan, path, basis, camera>>

\* lines 126-127: an exception that escapes a call inside the try (the
\* geocoder and the renderer catch their own; what is left is the likes of
\* MemoryError) is caught by the handler of the background task.
RaiseInTry(t) ==
    /\ \E pc \in {"L82", "L153"} : AtPc(t, pc)
    /\ SetTask(t, [tasks[t] EXCEPT !.error_msg = Some(<<"Error processing animation: ", "exception">>),
                                   !.pc = "L128"])
    /\ UNCHANGED <<now, animation_jobs, geocode_cache, config_files, output_files, req, resp, geo, plan, path, basis, camera>>

TaskStep(t) ==
    \/ SetProcessing(t)
    \/ LoopStep(t)
    \/ GeocodeReturn(t)
    \/ SetFailed(t)
    \/ SetError(t)
    \/ RenderPrepare(t)
    \/ RenderRun(t)
    \/ SetCompleted(t)
    \/ SetVideoPath(t)
    \/ SetDuration(t)
    \/ RaiseInTry(t)

Next ==
    \/ Tick
    \/ Submit
    \/ GetStatus
    \/ \E t \in 1..MaxJobs : TaskStep(t)

Spec == Init /\ [][Next]_vars

\* The names asked for and the runs of the collaborator where the calls of
\* geocode are observed: what each of max_retries + 1 queries would meet,
\* all of them timeouts but one.
ResolveNames == {"", "New York", "London", "Tokyo"}
ResolveRuns ==
    { Timeouts(k) \o <<out>> \o Timeouts(geocode_max_retries - k) :
        k \in 0..geocode_max_retries,
        out \in {"found", "found_elsewhere", "no_match", "error", "timeout"} }

\* geocoding_service.geocode(location_name), observed.
Resolve ==
    /\ \E location_name \in ResolveNames, outs \in ResolveRuns :
          LET r == lru_geocode(geocode_cache, location_name, outs, CacheCap)
          IN /\ geocode_cache' = r.cache
             /\ geo' = Some([location_name |-> location_name, outs |-> outs,
                             before |-> geocode_cache, hit |-> r.hit,
                             result |-> r.result, queries |-> r.queries,
                             slept |-> r.slept])
    /\ UNCHANGED <<now, animation_jobs, tasks, config_files, output_files, req, resp, plan, path, basis, camera>>

\* The geocoding service alone, called again and again.
GeocodeSpec == Init /\ [][Resolve]_vars

\* The waypoints of the observed runs: New York, London and further places,
\* all distinct, the same tours ending with a stay at the last place, and
\* tours that name one place n times.
Tour(n) ==
    [k \in 1..n |-> IF k = 1 THEN GeoCoord("New York")
                    ELSE IF k = 2 THEN GeoCoord("London")
                    ELSE <<10 * k - 40, 30 * k - 100>>]

TourWithStay(n) == [k \in 1..n |-> Tour(n)[IF k = n THEN n - 1 ELSE k]]

Stay(n) == [k \in 1..n |-> GeoCoord("London")]

WaypointLists ==
    { Tour(n) : n \in 2..MaxWaypoints } \cup { TourWithStay(n) : n \in 3..MaxWaypoints }
        \cup { Stay(n) : n \in 2..MaxWaypoints }
FpsValues == (1..MaxFps) \cup {default_fps}
Durations == {None} \cup { Some(d) : d \in 1..MaxDuration }

\* renderer.render_animation(locations, quality, fps, duration) up to the
\* configuration file, and each script of blender_scripts run on that file.
RenderObserved ==
    /\ plan = None
    /\ \E locations \in WaypointLists, fps \in FpsValues, duration \in Durations,
          quality \in VideoQuality :
          LET config_data == [locations |-> locations, quality |-> quality, fps |-> fps,
                              duration |-> dynamic_duration(duration, Len(locations))]
          IN plan' = Some([requested |-> duration, config |-> config_data,
                           run |-> render_flight_simple(config_data),
                           flight |-> render_flight(config_data)])
    /\ UNCHANGED <<now, animation_jobs, tasks, geocode_cache, config_files, output_files,
                   req, resp, geo, path, basis, camera>>

\* The renderer and the script alone, one run observed.
PlanSpec == Init /\ [][RenderObserved]_vars

\* Places on and off the poles and the antimeridian.
Places == { GeoCoord("New York"), GeoCoord("London"), <<0, 0>>,
            <<lat_le, 0>>, <<lat_le, 50>>, <<0, lon_le>>, <<0, lon_ge>> }

\* great_circle_points(start_lat, start_lon, end_lat, end_lon, steps), observed.
PathObserved ==
    /\ \E start \in Places, end \in Places, steps \in 0..MaxSteps :
          LET r == great_circle_points(start, end, steps)
          IN path' = Some([start |-> start, end |-> end, steps |-> steps,
                           raised |-> r.raised, points |-> r.points])
    /\ UNCHANGED <<now, animation_jobs, tasks, geocode_cache, config_files, output_files,
                   req, resp, geo, plan, basis, camera>>

\* great_circle_points alone, called again and again.
PathSpec == Init /\ [][PathObserved]_vars

\* Points of the unit sphere with rational coordinates, all over 5: the
\* six on the axes and some off them.
SpherePoints ==
    { <<v, 25>> : v \in { <<5, 0, 0>>, <<-5, 0, 0>>, <<0, 5, 0>>, <<0, -5, 0>>,
                          <<0, 0, 5>>, <<0, 0, -5>>, <<3, 4, 0>>, <<4, 3, 0>>,
                          <<0, 3, 4>>, <<4, 0, -3>>, <<-3, 0, 4>> } }

NoProps == [previous_direction |-> None, previous_right_vector |-> None]

\* The orientation of the plane at one sample of a path, observed; the
\* properties of the plane object last from sample to sample.
OrientObserved ==
    /\ \E current_vec_point \in SpherePoints, next_vec_point \in SpherePoints :
          LET props == IF basis = None THEN NoProps ELSE TheValue(basis).props
          IN basis' = Some(orientation(current_vec_point, next_vec_point, props))
    /\ UNCHANGED <<now, animation_jobs, tasks, geocode_cache, config_files, output_files,
                   req, resp, geo, plan, path, camera>>

\* The orientation alone, sample after sample.
OrientSpec == Init /\ [][OrientObserved]_vars

\* The radial directions of the plane: every direction with small whole
\* components, the six poles among them, and directions within and just
\* outside 0.001 of the poles.
NearPole ==
    { <<1, 1001, 0>>, <<0, 1001, -1>>, <<1, -1001, 0>>, <<1001, 1, 0>>, <<-1001, 0, 1>>,
      <<0, 1, 1001>>, <<1, 0, -1001>>, <<1, 999, 0>>, <<999, 0, 1>>, <<0, 1, 999>> }

RadialDirections ==
    { v \in (-MaxComponent..MaxComponent) \X (-MaxComponent..MaxComponent)
               \X (-MaxComponent..MaxComponent) : v # <<0, 0, 0>> } \cup NearPole

\* The up vector of the camera on one frame, observed.
CameraObserved ==
    /\ \E v \in RadialDirections :
          LET direction_from_earth_center == Normalized(<<v, 1>>)
          IN camera' = Some([d |-> direction_from_earth_center,
                             ref |-> camera_up(direction_from_earth_center)])
    /\ UNCHANGED <<now, animation_jobs, tasks, geocode_cache, config_files, output_files,
                   req, resp, geo, plan, path, basis>>

CameraSpec == Init /\ [][CameraObserved]_vars

\* The submissions alone, the last of them observed.
NextSubmit ==
    \/ (req = None /\ Submit)
    \/ SubmitObserved

SubmitSpec == Init /\ [][NextSubmit]_vars

\* The background tasks are run by the worker threads of the server: a task
\* that can take a step eventually takes one.
LiveSpec == Spec /\ \A t \in 1..MaxJobs : WF_vars(TaskStep(t))

(***************************************************************************)
(* Properties                                                              *)
(***************************************************************************)
Status(job_id) == animation_jobs[job_id]["status"]
Terminal == {"completed", "failed"}
Statuses == {"queued", "processing", "completed", "failed"}
Transitions ==
    {<<"queued", "processing">>, <<"processing", "completed">>, <<"processing", "failed">>}

\* C1: the status of every job starts as queued and only ever moves
\* queued -> processing -> completed | failed; completed and failed are final.
C1_StatusTransitions ==
    [][\A job_id \in JobIds :
          /\ (HasKey(animation_jobs, job_id) /\ HasKey(animation_jobs', job_id)) =>
                \/ Status(job_id)' = Status(job_id)
                \/ <<Status(job_id), Status(job_id)'>> \in Transitions
          /\ (~HasKey(animation_jobs, job_id) /\ HasKey(animation_jobs', job_id)) =>
                Status(job_id)' = "queued"]_vars

\* C2: every submitted job eventually is completed or failed.
C2_EventuallyTerminal ==
    \A job_id \in JobIds :
        HasKey(animation_jobs, job_id)
            ~> (HasKey(animation_jobs, job_id) /\ Status(job_id) \in Terminal)

C2_Witness ==
    \E t \in 1..Len(tasks) :
        /\ tasks[t].pc = "done"
        /\ Status(tasks[t].request_id) \in Terminal

ShortRequest(r) == r # None /\ Len(TheValue(r).locations) < 2

\* C3: a submission with fewer than 2 locations is answered with the
\* validation error (422), and that step leaves the job registry and the
\* scheduled background tasks as they were.
C3_ShortRequestRejected ==
    /\ [](ShortRequest(req) => resp = Some([code |-> 422]))
    /\ [][(ShortRequest(req') /\ <<req, resp, geo>>' # <<req, resp, geo>>) =>
              (animation_jobs' = animation_jobs /\ tasks' = tasks)]_vars

C3_Witness ==
    /\ ShortRequest(req)
    /\ resp = Some([code |-> 422])
    /\ animation_jobs # EmptyDict

\* A raw location that has no name and not both coordinates.
LacksNameAndCoordinates(raw) ==
    /\ ("name" \notin raw.given \/ raw.name = None)
    /\ \/ "lat" \notin raw.given \/ raw.lat = None
       \/ "lon" \notin raw.given \/ raw.lon = None

\* C4: a submission with a location that has neither a name nor coordinates
\* is rejected with the validation error at submit time, and no background
\* task ever meets such a location.
C4_NamelessRejectedAtSubmit ==
    /\ (req # None /\ \E i \in 1..Len(TheValue(req).locations) :
                         LacksNameAndCoordinates(TheValue(req).locations[i]))
          => resp = Some([code |-> 422])
    /\ \A t \in 1..Len(tasks) : tasks[t].pc # "L94"

\* C5: every accepted location has exactly one of: a name; both lat and lon,
\* each in range.
C5_AcceptedLocationShape ==
    \A t \in 1..Len(tasks) : \A i \in 1..Len(tasks[t].locations) :
        LET location == tasks[t].locations[i]
            named == location.name # None
            placed == /\ location.lat # None /\ location.lon # None
                      /\ lat_in_range(location.lat) /\ lon_in_range(location.lon)
        IN /\ named \/ placed
           /\ ~(named /\ placed)
           /\ (location.lat # None) <=> (location.lon # None)

InRangeCoordinates(raw) ==
    /\ raw.given = {"lat", "lon"}
    /\ raw.lat # None /\ raw.lon # None
    /\ lat_in_range(raw.lat) /\ lon_in_range(raw.lon)

\* C6: a submission whose locations are in-range (lat, lon) pairs without a
\* name is accepted, and the geocoder is never asked about such a location.
C6_CoordinatesAccepted ==
    /\ (req # None /\ Len(TheValue(req).locations) >= 2
          /\ \A i \in 1..Len(TheValue(req).locations) :
                 InRangeCoordinates(TheValue(req).locations[i]))
          => (resp # None /\ TheValue(resp).code = 200)
    /\ \A t \in 1..Len(tasks) :
          tasks[t].pc = "L82" => tasks[t].locations[tasks[t].i].lat = None

\* C7: an accepted submission creates exactly one new job record, in status
\* queued, and answers with its id and status queued; a task only runs for an
\* id that has a record.
C7_SubmitCreatesOneJob ==
    /\ [][Len(tasks') = Len(tasks) + 1 =>
            LET request_id == tasks'[Len(tasks')].request_id
            IN /\ ~HasKey(animation_jobs, request_id)
               /\ DOMAIN animation_jobs' = DOMAIN animation_jobs \cup {request_id}
               /\ animation_jobs'[request_id]["status"] = "queued"
               /\ req' # req =>
                    resp' = Some([code |-> 200, job_id |-> request_id, status |-> "queued"])]_vars
    /\ [](\A t \in 1..Len(tasks) : HasKey(animation_jobs, tasks[t].request_id))

\* C8: a status query answers NotFound exactly for the ids no submission
\* issued, and for every issued id it answers with one of the four statuses.
C8_StatusQueryAnswers ==
    \A job_id \in JobIds :
        LET r == get_job_status(job_id)
        IN IF \E t \in 1..Len(tasks) : tasks[t].request_id = job_id
           THEN r.code = 200 /\ r.status \in Statuses
           ELSE r.code = 404

\* C9: whenever a job is completed, its video_path and duration are
\* recorded, so a status query that sees completed returns both.
C9_CompletedHasResult ==
    \A job_id \in DOMAIN animation_jobs :
        Status(job_id) = "completed" =>
            /\ HasKey(animation_jobs[job_id], "video_path")
            /\ HasKey(animation_jobs[job_id], "duration")
            /\ get_job_status(job_id).code = 200

\* The render call of the task has returned.
Rendered(task) == task.render_time # None /\ task.pc \notin {"L99", "L153", "L128"}
RenderSucceeded(task) == task.returncode = Some(0) /\ task.output_exists = Some(TRUE)
SoleExecution(t) ==
    \A u \in 1..Len(tasks) : u # t => tasks[u].request_id # tasks[t].request_id

NamedLocation(task) ==
    LET location == task.locations[task.i]
    IN /\ ~(location.lat # None /\ location.lon # None)
       /\ location.name # None /\ location.name # Some("")

LocationName(task) == TheValue(task.locations[task.i].name)

\* The step in which geocode, called or answered from the cache, returns
\* None to task t: the call is over, no exception was raised and no
\* coordinates were appended.
GeocodeReturnsNone(t) ==
    /\ t \in 1..Len(tasks)
    /\ tasks[t].pc \in {"L76", "L82"}
    /\ NamedLocation(tasks[t])
    /\ tasks'[t] # tasks[t]
    /\ tasks'[t].pc \notin {"L82", "L128"}
    /\ tasks'[t].processed_locations = tasks[t].processed_locations

GeocodeFailed(task) ==
    /\ task.error_msg # None
    /\ TheValue(task.error_msg)[1] = "Failed to geocode location: "

CoordinatesOf(location) ==
    IF location.lat # None /\ location.lon # None
    THEN <<TheValue(location.lat), TheValue(location.lon)>>
    ELSE GeoCoord(TheValue(location.name))

\* C12: a task resolves its locations one at a time in request order, each
\* before the renderer is called; once a location fails, or the renderer
\* has been called, the task makes no further geocoder call; the renderer
\* is called at most once, and only when every location has coordinates.
C12_ResolveThenRender ==
    /\ [](\A t \in 1..Len(tasks) :
            LET task == tasks[t]
            IN /\ Len(task.processed_locations) = task.i - 1
               /\ \A j \in 1..Len(task.processed_locations) :
                     task.processed_locations[j] = CoordinatesOf(task.locations[j])
               /\ task.pc \in {"L70", "L76", "L82", "L88", "L94"} =>
                     /\ task.start_time = None /\ task.config_path = None
                     /\ task.i <= Len(task.locations)
               /\ task.start_time # None =>
                     Len(task.processed_locations) = Len(task.locations))
    /\ [][\A t \in 1..Len(tasks) :
            /\ tasks'[t].i \in {tasks[t].i, tasks[t].i + 1}
            /\ tasks[t].pc \notin {"L70", "L76", "L82"} =>
                  /\ tasks'[t].pc \notin {"L76", "L82"}
                  /\ tasks'[t].i = tasks[t].i
            /\ tasks[t].pc # "L99" =>
                  /\ tasks'[t].start_time = tasks[t].start_time
                  /\ tasks'[t].config_path = tasks[t].config_path]_vars

C12_Witness ==
    \E t, u \in 1..Len(tasks) :
        /\ tasks[t].pc = "L153"
        /\ tasks[t].processed_locations = <<GeoCoord("London"), GeoCoord("New York")>>
        /\ tasks[u].pc = "L88" /\ tasks[u].i = 2
        /\ tasks[u].processed_locations = <<GeoCoord("London")>>

\* C13: a task always has a record to write to, so no write of its own
\* raises; an exception raised inside the try is turned into a failure of
\* the job; when every task of a job id is done and the record is failed,
\* the record holds an error message; and a status query that finds the
\* record failed answers 200 with an error message.
C13_FailuresCaught ==
    /\ \A t \in 1..Len(tasks) :
          LET task == tasks[t]
              job == animation_jobs[task.request_id]
          IN /\ HasKey(animation_jobs, task.request_id)
             /\ task.pc \in {"L128", "L122", "L94", "L88", "set_error"} =>
                   task.error_msg # None
             /\ (task.pc = "done" /\ task.error_msg # None /\ SoleExecution(t)) =>
                   /\ job["status"] = "failed"
                   /\ HasKey(job, "error") /\ job["error"] = TheValue(task.error_msg)
    /\ \A job_id \in DOMAIN animation_jobs :
          animation_jobs[job_id]["status"] = "failed" =>
             /\ (\A t \in 1..Len(tasks) :
                    tasks[t].request_id = job_id => tasks[t].pc = "done")
                  => HasKey(animation_jobs[job_id], "error")
             /\ get_job_status(job_id).code = 200
             /\ get_job_status(job_id).status = "failed"
             /\ "error" \in DOMAIN get_job_status(job_id)

C13_Witness ==
    \E t, u \in 1..Len(tasks) :
        /\ tasks[t].pc = "done"
        /\ tasks[t].error_msg = Some(<<"Error processing animation: ", "exception">>)
        /\ SoleExecution(t)
        /\ animation_jobs[tasks[t].request_id]["status"] = "failed"
        /\ tasks[u].pc = "set_error"
        /\ animation_jobs[tasks[u].request_id]["status"] = "failed"
        /\ ~HasKey(animation_jobs[tasks[u].request_id], "error")

\* The first n queries of a run all time out.
AllTimeouts(outs, n) == \A k \in 1..n : outs[k] = "timeout"

Answered(out) == out \in {"found", "found_elsewhere"}

\* The observed call ran the function on a name that is not empty.
Ran(call) == ~call.hit /\ call.location_name # ""

\* C14: a call of geocode for a name that is not cached makes at most
\* max_retries queries; when every query times out it makes exactly
\* max_retries of them and returns None; when the first k < max_retries
\* queries time out and the next one is answered, it returns that answer.
C14_RetriesBounded ==
    geo # None =>
        LET call == TheValue(geo)
        IN Ran(call) =>
             /\ call.queries <= geocode_max_retries
             /\ AllTimeouts(call.outs, geocode_max_retries) =>
                   /\ call.queries = geocode_max_retries
                   /\ call.result = None
             /\ \A k \in 1..(geocode_max_retries - 1) :
                   (AllTimeouts(call.outs, k) /\ Answered(call.outs[k + 1])) =>
                       /\ call.queries = k + 1
                       /\ call.result =
                              Some(GeoAnswer(call.location_name, call.outs[k + 1]))

C14_Witness ==
    /\ geo # None /\ Ran(TheValue(geo))
    /\ AllTimeouts(TheValue(geo).outs, geocode_max_retries + 1)
    /\ TheValue(geo).queries = geocode_max_retries
    /\ \E k \in 1..Len(TheValue(geo).before) :
          /\ TheValue(geo).before[k].key # TheValue(geo).location_name
          /\ TheValue(geo).before[k].value = Some(<<42, -75>>)

\* C15: the k-th wait of a call is 2^k seconds, and a call that makes n
\* queries waits n - 1 times.
C15_WaitsBetweenAttempts ==
    geo # None =>
        LET call == TheValue(geo)
        IN Ran(call) =>
             /\ \A k \in 1..Len(call.slept) : call.slept[k] = 2^k
             /\ Len(call.slept) = call.queries - 1

\* C16: when a query is answered with no match, the call returns None at
\* once: that query is its last and no wait follows it; answered so at the
\* first query, the call has made one query and has not waited.
C16_NoMatchFailsAtOnce ==
    geo # None =>
        LET call == TheValue(geo)
        IN Ran(call) =>
             \A k \in 1..geocode_max_retries :
                 (AllTimeouts(call.outs, k - 1) /\ call.outs[k] = "no_match") =>
                     /\ call.result = None
                     /\ call.queries = k
                     /\ Len(call.slept) = k - 1

C16_Witness ==
    /\ geo # None /\ Ran(TheValue(geo))
    /\ TheValue(geo).outs[1] = "no_match"
    /\ TheValue(geo).queries = 1 /\ TheValue(geo).slept = <<>>
    /\ TheValue(geo).result = None

\* C17: a call of geocode with the empty name returns None and makes no
\* query.
C17_EmptyNameNoQuery ==
    geo # None =>
        LET call == TheValue(geo)
        IN call.location_name = "" =>
             /\ call.result = None
             /\ call.queries = 0
             /\ call.slept = <<>>

C17_Witness ==
    /\ geo # None
    /\ TheValue(geo).location_name = "" /\ ~TheValue(geo).hit
    /\ TheValue(geo).outs[1] = "found"
    /\ TheValue(geo).queries = 0

\* C18: a call of geocode for a name whose coordinates an earlier call left
\* in the cache returns those coordinates and makes no query, whatever the
\* collaborator would answer now.
C18_CachedResolveNoQuery ==
    geo # None =>
        LET call == TheValue(geo)
        IN \A k \in 1..Len(call.before) :
              (call.before[k].key = call.location_name /\ call.before[k].value # None) =>
                  /\ call.result = call.before[k].value
                  /\ call.queries = 0

C18_Witness ==
    /\ geo # None
    /\ TheValue(geo).location_name = "London"
    /\ TheValue(geo).outs[1] = "found_elsewhere"
    /\ TheValue(geo).result = Some(GeoCoord("London"))
    /\ TheValue(geo).queries = 0

\* C19: the cache holds successful results only, and a call of geocode that
\* returns None leaves the cache as it was.
C19_OnlySuccessCached ==
    /\ \A k \in 1..Len(geocode_cache) : geocode_cache[k].value # None
    /\ geo # None =>
          (TheValue(geo).result = None => geocode_cache = TheValue(geo).before)

KeysOf(cache) == { cache[k].key : k \in 1..Len(cache) }

\* C20: the cache never holds more entries than its capacity nor two
\* entries of one key; the entry of the last call is the most recently
\* used one and the others keep their order, so the first entry is the
\* least recently used; a call that stores into a full cache drops exactly
\* that first entry.
C20_CacheBounded ==
    /\ Len(geocode_cache) <= CacheCap
    /\ Cardinality(KeysOf(geocode_cache)) = Len(geocode_cache)
    /\ geo # None =>
          LET call == TheValue(geo)
              n == Len(geocode_cache)
              rest == SubSeq(geocode_cache, 1, n - 1)
          IN /\ n >= 1
             /\ geocode_cache[n].key = call.location_name
             /\ geocode_cache[n].value = call.result
             /\ IF call.hit
                THEN /\ n = Len(call.before)
                     /\ \E k \in 1..n : rest = CacheWithout(call.before, k)
                ELSE IF Len(call.before) = CacheCap
                THEN /\ n = CacheCap
                     /\ rest = Tail(call.before)
                     /\ KeysOf(geocode_cache) =
                            (KeysOf(call.before) \ {call.before[1].key})
                                \cup {call.location_name}
                ELSE rest = call.before

C20_Witness ==
    /\ geo # None
    /\ ~TheValue(geo).hit
    /\ Len(TheValue(geo).before) = CacheCap
    /\ Len(geocode_cache) = CacheCap
    /\ TheValue(geo).before[1].key \notin KeysOf(geocode_cache)
    /\ \E k \in 1..Len(geocode_cache) :
          k < Len(geocode_cache) /\ geocode_cache[k].key = "London"

\* C21: whatever the interleaving of the tasks, the cache holds at most
\* maxsize entries, every entry holds coordinates the collaborator answered
\* for the entry's name, and every task has appended, for each location it
\* resolved, the coordinates of that location.
C21_CacheSafeUnderConcurrency ==
    /\ Len(geocode_cache) <= lru_maxsize
    /\ \A k \in 1..Len(geocode_cache) :
          geocode_cache[k].value = Some(GeoCoord(geocode_cache[k].key))
    /\ \A t \in 1..Len(tasks) :
          \A j \in 1..Len(tasks[t].processed_locations) :
              tasks[t].processed_locations[j] = CoordinatesOf(tasks[t].locations[j])

\* C22: the duration in the configuration file is 5 + 3 * (N - 2) for N
\* locations when the request gives none, and the requested one otherwise;
\* the script computes its frames from it.
C22_ConfigDuration ==
    plan # None =>
        LET p == TheValue(plan)
            N == Len(p.config.locations)
        IN /\ p.requested = None => p.config.duration = 5 + 3 * (N - 2)
           /\ p.requested # None => p.config.duration = TheValue(p.requested)
           /\ p.run.frames = p.config.fps * p.config.duration

C22_Witness ==
    /\ plan # None
    /\ TheValue(plan).requested = Some(2)
    /\ Len(TheValue(plan).config.locations) = 4
    /\ TheValue(plan).config.duration = 2
    /\ TheValue(plan).run.frames = 2 * default_fps

\* C23: for N >= 2 waypoints, fps >= 1 and duration >= 1 the script has
\* frames = fps * duration and frames_per_segment the greater of 1 and
\* frames divided by N - 1 rounded down.
C23_FramesPerSegment ==
    plan # None =>
        LET p == TheValue(plan)
            N == Len(p.config.locations)
            quotient == (p.config.fps * p.config.duration) \div (N - 1)
        IN /\ p.run.frames = p.config.fps * p.config.duration
           /\ p.run.frames_per_segment = IF quotient >= 1 THEN quotient ELSE 1
           /\ p.run.frames_per_segment >= 1

C23_Witness ==
    /\ plan # None
    /\ TheValue(plan).run.frames = 2
    /\ TheValue(plan).run.total_segments = 3
    /\ TheValue(plan).run.frames_per_segment = 1

DistinctWaypoints(waypoints) ==
    \A j, k \in 1..Len(waypoints) : j # k => waypoints[j] # waypoints[k]

SegmentFrames(run, i) == { k[1] : k \in { q \in run.position_keys : q[2] = i } }

\* C24: for N >= 2 distinct waypoints, fps >= 1 and duration >= 1 the
\* script computes its plan without raising, and every segment has at least
\* one path sample.
C24_PlanCompletes ==
    plan # None =>
        LET p == TheValue(plan)
        IN DistinctWaypoints(p.config.locations) =>
             /\ ~p.run.raised
             /\ \A i \in 1..p.run.total_segments : p.run.samples[i] >= 1

\* C25: every frame of 1..frames has a location keyframe of exactly one
\* segment.
C25_SegmentsPartitionTimeline ==
    plan # None =>
        LET p == TheValue(plan)
        IN \A f \in 1..p.run.frames :
              Cardinality({ i \in 0..(p.run.total_segments - 1) :
                              f \in SegmentFrames(p.run, i) }) = 1

TwoWaypointDefault(p) ==
    /\ Len(p.config.locations) = 2
    /\ p.config.fps = default_fps
    /\ p.requested = None

\* C26: two waypoints at 30 fps with no requested duration give duration 5,
\* 150 frames, 150 frames per segment and one segment of 151 samples whose
\* keyframes are on frames 1..150.
C26_TwoWaypointPlan ==
    plan # None =>
        LET p == TheValue(plan)
        IN TwoWaypointDefault(p) =>
             /\ p.config.duration = 5
             /\ p.run.frames = 150
             /\ p.run.frames_per_segment = 150
             /\ p.run.samples = <<151>>
             /\ SegmentFrames(p.run, 0) = 1..150

AppearFrame(run, i) == i * run.frames_per_segment + 1

\* C27: on every frame of 1..frames label i is visible exactly from its
\* appear frame i * frames_per_segment + 1 to the frame before the appear
\* frame of label i + 1, the last label to the last frame.
C27_LabelVisibility ==
    plan # None =>
        LET run == TheValue(plan).run
        IN \A l \in 1..Len(run.labels) : \A f \in 1..run.frames :
              ~hide_render(run.labels[l], f) <=>
                  /\ f >= AppearFrame(run, l - 1)
                  /\ l - 1 < run.total_segments => f < AppearFrame(run, l)

\* C28: for steps >= 1 great_circle_points returns steps + 1 samples, the
\* first the unit vector of start and the last the unit vector of end.
C28_GreatCircleEndpoints ==
    path # None =>
        LET c == TheValue(path)
        IN c.steps >= 1 =>
             /\ ~c.raised
             /\ Len(c.points) = c.steps + 1
             /\ c.points[1] = At(c.start)
             /\ c.points[c.steps + 1] = At(c.end)

C28_Witness ==
    /\ path # None
    /\ UnitVector(TheValue(path).start) # UnitVector(TheValue(path).end)
    /\ TheValue(path).steps = 2
    /\ Len(TheValue(path).points) = 3
    /\ TheValue(path).points[2].num = 1

\* C29: great_circle_points from a place to the same place returns
\* steps + 1 samples, each the unit vector of the place, and does not
\* raise, for any steps.
C29_SamePlacePath ==
    path # None =>
        LET c == TheValue(path)
        IN c.start = c.end =>
             /\ ~c.raised
             /\ Len(c.points) = c.steps + 1
             /\ \A i \in 1..Len(c.points) : c.points[i] = At(c.start)

C29_Witness ==
    /\ path # None
    /\ TheValue(path).start = TheValue(path).end
    /\ TheValue(path).steps = 0
    /\ ~TheValue(path).raised
    /\ TheValue(path).points = <<At(TheValue(path).start)>>

UnitLength(a) == Dot3(a[1], a[1]) = a[2]
Orthogonal(a, b) == Dot3(a[1], b[1]) = 0

\* C30: the basis (right, forward, up) computed for a sample has three
\* vectors of length 1, each orthogonal to the other two, whether the step
\* to the next sample is ordinary, near zero or near parallel to up.
C30_BasisOrthonormal ==
    basis # None =>
        LET b == TheValue(basis)
        IN /\ UnitLength(b.right) /\ UnitLength(b.forward) /\ UnitLength(b.up)
           /\ Orthogonal(b.right, b.forward)
           /\ Orthogonal(b.right, b.up)
           /\ Orthogonal(b.forward, b.up)

C30_Witness ==
    /\ basis # None
    /\ TheValue(basis).zero_step /\ TheValue(basis).parallel
    /\ TheValue(basis).props.previous_right_vector = Some(ZeroVector)
    /\ UnitLength(TheValue(basis).forward)

\* C31: a record, once created, stays in the registry; every submission
\* that creates a job issues an id no earlier submission was given, so no
\* record is replaced and no terminal job goes back to queued.
C31_IdsUnique ==
    [][/\ \A job_id \in DOMAIN animation_jobs :
             /\ job_id \in DOMAIN animation_jobs'
             /\ Status(job_id) \in Terminal => animation_jobs'[job_id]["status"] # "queued"
       /\ Len(tasks') > Len(tasks) =>
             /\ tasks'[Len(tasks')].request_id \notin DOMAIN animation_jobs
             /\ \A t \in 1..Len(tasks) :
                   tasks[t].request_id # tasks'[Len(tasks')].request_id]_vars

\* The renderer has been called for the task and Blender has not exited.
Rendering(task) == task.pc = "L153"

\* C32: two tasks whose renders overlap have different configuration paths
\* and different output paths; the configuration file a render reads holds
\* the locations of its own task, and the video of a task that takes the
\* completed branch was made from its own locations.
C32_RenderPathsDistinct ==
    /\ \A t, u \in 1..Len(tasks) :
          (t # u /\ Rendering(tasks[t]) /\ Rendering(tasks[u])) =>
              /\ tasks[t].config_path # tasks[u].config_path
              /\ tasks[t].output_path # tasks[u].output_path
    /\ \A t \in 1..Len(tasks) :
          /\ Rendering(tasks[t]) =>
                config_files[TheValue(tasks[t].config_path)].locations
                    = tasks[t].processed_locations
          /\ tasks[t].pc \in {"L114", "L115", "L116"} =>
                output_files[TheValue(tasks[t].video_path)]
                    = tasks[t].processed_locations

\* C33: every sample of a segment that has a location keyframe has a
\* rotation keyframe on the same frame, the last sample of the segment and
\* the sample of a single-sample segment included.
C33_OrientationKeyed ==
    plan # None =>
        LET run == TheValue(plan).run
        IN \A k \in run.position_keys : k \in run.rotation_keys

\* C34: the camera has one location and one rotation keyframe on every
\* frame of 1..frames and none elsewhere, and on each frame it is at the
\* plane's position plus 0.8 along the direction of that position from the
\* centre of the Earth.
C34_CameraFollows ==
    plan # None =>
        LET p == TheValue(plan)
            run == p.run
            fps_segment == run.frames_per_segment
        IN /\ run.camera_keys = (1..run.frames) \X {"location", "rotation_euler"}
           /\ DOMAIN run.camera = 1..run.frames
           /\ \A f \in 1..run.frames :
                 \E k \in run.position_keys :
                    /\ k[1] <= f
                    /\ \A q \in run.position_keys : q[1] <= f => q[1] <= k[1]
                    /\ run.camera[f].body =
                          segment_path(p.config.locations, k[2], fps_segment).points[k[3] + 1]
                    /\ run.camera[f].along = run.camera[f].body
                    /\ run.camera[f].offset = 8

KeyframesInRange(run) ==
    \A k \in run.position_keys \cup run.rotation_keys :
        k[1] >= 1 /\ k[1] <= run.frames

\* C36: no location or rotation keyframe of the plane is on a frame below
\* 1 or above frames, also when frames is less than the number of segments,
\* in render_flight_simple.py and in render_flight.py.
C36_KeyframesInRange ==
    plan # None =>
        /\ KeyframesInRange(TheValue(plan).run)
        /\ KeyframesInRange(TheValue(plan).flight)

Higher == {<<"720p", "1080p">>, <<"1080p", "1440p">>, <<"1440p", "4K">>}

\* C37: each of 720p, 1080p, 1440p and 4K has an entry of its own in the
\* resolution table, narrower than tall, none takes the default of the
\* lookup, and a higher quality is never rendered smaller than a lower one.
C37_QualityResolutions ==
    plan # None =>
        LET p == TheValue(plan)
        IN /\ lower(p.config.quality) \in {"480p", "720p", "1080p", "4k"}
           /\ p.run.resolution[1] < p.run.resolution[2]
           /\ \A pair \in Higher :
                 p.config.quality = pair[2] =>
                    /\ p.run.resolution[1] >= resolution(pair[1])[1]
                    /\ p.run.resolution[2] >= resolution(pair[1])[2]
                    /\ p.run.resolution # resolution(pair[1])

\* C35: for every radial direction of the plane, the poles included, the
\* up reference the camera takes from the Y axis, else the X axis, else the
\* Z axis is a non-zero vector that is not parallel to the radial direction.
C35_CameraUpDefined ==
    camera # None =>
        LET c == TheValue(camera)
        IN /\ c.ref.up # ZeroVector
           /\ UnitLength(c.ref.up)
           /\ Cross3(c.ref.up[1], c.d[1]) # <<0, 0, 0>>

C35_Witness ==
    /\ camera # None
    /\ TheValue(camera).d = AxisY
    /\ TheValue(camera).ref.chosen = "X"
    /\ TheValue(camera).ref.up = AxisX
====
